---- MODULE Spec2Model ----
(***************************************************************************)
(* A model of plot_containment.py: the natural sort key, the single-file   *)
(* mode (create_single_plot) and the combined mode (create_combined_plot,  *)
(* create_combined_csv, create_plot_from_combined_csv), run over a small   *)
(* file system.  Strings are sequences of one-character strings.           *)
(***************************************************************************)
EXTENDS Integers, Sequences, FiniteSets, TLC

VARIABLES
    fs,          \* the file system: path -> file content (Missing when absent)
    args,        \* the parsed command line (argparse namespace)
    pc,          \* position of the process in the program
    df,          \* the data frame held by the running function
    dfs,         \* create_combined_csv: the list of contributing data frames
    idx,         \* create_combined_csv: index of the next input file
    chart,       \* the chart description built so far
    err,         \* description of the exception being handled
    exit_status, \* "running", "ok" (exit 0), "exit1" (sys.exit(1)), "exception"
    outcome,     \* terminal state of the pipeline reached by this run
    fs0,         \* the file system when the running process was started
    run,         \* number of processes started so far
    prev_csv,    \* the output table left by the previous process
    text_a,      \* natural_sort_key: first input string
    text_b,      \* natural_sort_key: second input string
    key_a,       \* natural_sort_key(text_a)
    key_b,       \* natural_sort_key(text_b)
    cmp          \* result of comparing key_a with key_b

runVars == <<fs, args, pc, df, dfs, idx, chart, err, exit_status, outcome, fs0, run, prev_csv>>
keyVars == <<text_a, text_b, key_a, key_b, cmp>>
vars == <<fs, args, pc, df, dfs, idx, chart, err, exit_status, outcome, fs0, run,
          prev_csv, text_a, text_b, key_a, key_b, cmp>>

(***************************************************************************)
(* Bounds of the model.                                                    *)
(***************************************************************************)
MaxKeyLen == 3
MaxRows == 2
MaxFiles == 2
MaxRuns == 2

(***************************************************************************)
(* Characters.  CharOrder lists the characters the model uses in code      *)
(* point order; Python compares strings by code point.                     *)
(***************************************************************************)
UpperChars == <<"A","B","C","D","E","F","G","H","I","J","K","L","M",
                "N","O","P","Q","R","S","T","U","V","W","X","Y","Z">>
LowerChars == <<"a","b","c","d","e","f","g","h","i","j","k","l","m",
                "n","o","p","q","r","s","t","u","v","w","x","y","z">>
DecimalChars == <<"0","1","2","3","4","5","6","7","8","9">>
\* U+00B2 SUPERSCRIPT TWO: str.isdigit() is true, \d does not match, int() rejects
SuperTwo == "^2"

CharOrder == <<" ", ".", "/">> \o DecimalChars \o UpperChars \o <<"_">> \o LowerChars
              \o <<SuperTwo>>

Range(s) == {s[i] : i \in DOMAIN s}

CharSet == Range(CharOrder)

Ord == [c \in CharSet |-> CHOOSE i \in DOMAIN CharOrder : CharOrder[i] = c]

\* regex \d
IsDecimal(c) == c \in Range(DecimalChars)

\* the characters str.isdigit() accepts
IsDigitChar(c) == IsDecimal(c) \/ c = SuperTwo

DigitVal(c) == (CHOOSE i \in DOMAIN DecimalChars : DecimalChars[i] = c) - 1

LowerChar == [c \in CharSet |->
                IF c \in Range(UpperChars)
                THEN LowerChars[CHOOSE i \in DOMAIN UpperChars : UpperChars[i] = c]
                ELSE c]

\* str.lower()
Lower(s) == [i \in DOMAIN s |-> LowerChar[s[i]]]

\* str.isdigit(): non-empty and every character a digit
IsDigit(s) == s # <<>> /\ \A i \in DOMAIN s : IsDigitChar(s[i])

\* int(s) of a run of decimal digits
RECURSIVE IntOf(_)
IntOf(s) == IF s = <<>> THEN 0
            ELSE IntOf(SubSeq(s, 1, Len(s) - 1)) * 10 + DigitVal(s[Len(s)])

\* int(s) raises ValueError unless every character is a decimal digit
IntRaises(s) == \E i \in DOMAIN s : ~IsDecimal(s[i])

\* Python's < on two strings
RECURSIVE StrLess(_, _)
StrLess(s, t) ==
    IF t = <<>> THEN FALSE
    ELSE IF s = <<>> THEN TRUE
    ELSE IF s[1] # t[1] THEN Ord[s[1]] < Ord[t[1]]
    ELSE StrLess(Tail(s), Tail(t))

(***************************************************************************)
(* natural_sort_key (lines 13-15).                                         *)
(***************************************************************************)
\* re.split(r"(\d+)", text): the runs between and including the digit runs;
\* the result alternates text, digits, text, ..., and ends with a text run.
RECURSIVE ReSplitFrom(_, _, _, _)
ReSplitFrom(text, acc, cur, inDigits) ==
    IF text = <<>>
    THEN IF inDigits THEN acc \o <<cur, <<>>>> ELSE acc \o <<cur>>
    ELSE LET c == Head(text) IN
         IF IsDecimal(c) = inDigits
         THEN ReSplitFrom(Tail(text), acc, Append(cur, c), inDigits)
         ELSE ReSplitFrom(Tail(text), Append(acc, cur), <<c>>, ~inDigits)

ReSplit(text) == ReSplitFrom(text, <<>>, <<>>, FALSE)

\* int(c) if c.isdigit() else c.lower()
KeyComponent(c) ==
    IF IsDigit(c) THEN [t |-> "int", v |-> IntOf(c)]
    ELSE [t |-> "str", v |-> Lower(c)]

\* the tuple natural_sort_key returns; raised is "ValueError" when an int()
\* call raises, and then there is no tuple
natural_sort_key(text) ==
    LET parts == ReSplit(text) IN
    IF \E i \in DOMAIN parts : IsDigit(parts[i]) /\ IntRaises(parts[i])
    THEN [raised |-> "ValueError", key |-> <<>>]
    ELSE [raised |-> "none", key |-> [i \in DOMAIN parts |-> KeyComponent(parts[i])]]

\* Python's comparison of two tuples: "lt", "eq", "gt", or "TypeError" when the
\* first differing components are an int and a str
RECURSIVE TupleCompare(_, _)
TupleCompare(k1, k2) ==
    IF k1 = <<>> /\ k2 = <<>> THEN "eq"
    ELSE IF k1 = <<>> THEN "lt"
    ELSE IF k2 = <<>> THEN "gt"
    ELSE IF k1[1].t # k2[1].t THEN "TypeError"
    ELSE IF k1[1].v = k2[1].v THEN TupleCompare(Tail(k1), Tail(k2))
    ELSE IF k1[1].t = "int" THEN (IF k1[1].v < k2[1].v THEN "lt" ELSE "gt")
    ELSE IF StrLess(k1[1].v, k2[1].v) THEN "lt" ELSE "gt"

KeyLeq(k1, k2) == TupleCompare(k1, k2) \in {"lt", "eq"}

(***************************************************************************)
(* Strings used as inputs.                                                 *)
(***************************************************************************)
RECURSIVE StringsUpTo(_, _)
StringsUpTo(alphabet, n) ==
    IF n = 0 THEN {<<>>}
    ELSE LET shorter == StringsUpTo(alphabet, n - 1) IN
         shorter \cup {Append(s, c) : s \in shorter, c \in alphabet}

KeyAlphabet == {"a", "B", "1", "0", SuperTwo}

sample2 == <<"s","a","m","p","l","e","2">>
sample10 == <<"s","a","m","p","l","e","1","0">>
sample100 == <<"s","a","m","p","l","e","1","0","0">>

KeyInputs == StringsUpTo(KeyAlphabet, MaxKeyLen) \cup {sample2, sample10, sample100}

NoKey == [raised |-> "unset", key |-> <<>>]

(***************************************************************************)
(* Files.  A file is a record of one shape: a table as delimited text      *)
(* (kind "csv": header cols, one sequence of cell texts per row), a        *)
(* zero-byte file, unparsable text, a placeholder text, or an image.       *)
(***************************************************************************)
NoChart == [y |-> <<>>, color |-> <<>>, layers |-> <<>>, n |-> 0]

File(kind, cols, rows, text, ch) ==
    [kind |-> kind, cols |-> cols, rows |-> rows, text |-> text, chart |-> ch]

Missing == File("missing", <<>>, <<>>, <<>>, NoChart)
ZeroBytes == File("zero", <<>>, <<>>, <<>>, NoChart)
Garbage == File("garbage", <<>>, <<>>, <<>>, NoChart)
Csv(cols, rows) == File("csv", cols, rows, <<>>, NoChart)
\* the text written by open(path, "w").write(...)
Placeholder(msg, detail) == File("text", <<>>, <<>>, <<msg>> \o detail, NoChart)
\* the image chart.save writes
Image(ch) == File("image", <<>>, <<>>, <<>>, ch)

\* os.path.exists
Exists(f, path) == f[path].kind # "missing"
\* os.path.getsize of an existing file is 0 exactly for the zero-byte file
SizeIsZero(f, path) == f[path].kind = "zero"

(***************************************************************************)
(* Data frames: cols is the column index, each row a function from the     *)
(* column names to values.  A value is a string, a float or NaN.           *)
(***************************************************************************)
StrV(s) == [t |-> "str", v |-> s]
FloatV(s) == [t |-> "float", v |-> s]
NaN == [t |-> "nan", v |-> <<>>]

Frame(cols, rows) == [cols |-> cols, rows |-> rows]
NoFrame == Frame(<<>>, <<>>)

\* df.empty: no rows or no columns
IsEmpty(d) == Len(d.rows) = 0 \/ Len(d.cols) = 0

\* "name" in df.columns
HasCol(d, c) == c \in Range(d.cols)

\* a cell text that parses as a float: digits "." digits
IsFloatText(t) ==
    /\ Cardinality({i \in DOMAIN t : t[i] = "."}) = 1
    /\ \A i \in DOMAIN t : IsDecimal(t[i]) \/ t[i] = "."
    /\ t[1] # "." /\ t[Len(t)] # "."

\* the shortest text of the same number: no trailing zeros after the first
\* fraction digit ("0.30" and "0.3" are the same float, written "0.3")
RECURSIVE StripZeros(_)
StripZeros(t) ==
    IF t[Len(t)] = "0" /\ t[Len(t) - 1] # "."
    THEN StripZeros(SubSeq(t, 1, Len(t) - 1))
    ELSE t

ParseFloat(t) == FloatV(StripZeros(t))

\* a column is read as floats when every cell is a float text or empty
IsFloatColumn(content, j) ==
    \A r \in DOMAIN content.rows :
        content.rows[r][j] = <<>> \/ IsFloatText(content.rows[r][j])

ParseCell(content, r, j) ==
    LET t == content.rows[r][j] IN
    IF t = <<>> THEN NaN
    ELSE IF IsFloatColumn(content, j) THEN ParseFloat(t)
    ELSE StrV(t)

ColIndex(cols, c) == CHOOSE j \in DOMAIN cols : cols[j] = c

\* pd.read_csv raises on a zero-byte file (EmptyDataError) and on unparsable
\* text (ParserError), and on a missing file (FileNotFoundError)
ReadRaises(content) == content.kind # "csv"

\* pd.read_csv of a table
read_csv(content) ==
    Frame(content.cols,
          [r \in DOMAIN content.rows |->
              [c \in Range(content.cols) |->
                  ParseCell(content, r, ColIndex(content.cols, c))]])

\* the text to_csv writes for a value
FormatCell(v) == IF v.t = "nan" THEN <<>> ELSE v.v

\* to_csv with the row index written as a first column (index=True)
to_csv_with_index(d) ==
    Csv(<<"index">> \o d.cols,
        [r \in DOMAIN d.rows |->
            <<<<"i">>>> \o [j \in DOMAIN d.cols |-> FormatCell(d.rows[r][d.cols[j]])]])

\* df.to_csv(path, index=False)
to_csv(d) ==
    Csv(d.cols, [r \in DOMAIN d.rows |-> [j \in DOMAIN d.cols |-> FormatCell(d.rows[r][d.cols[j]])]])

\* df.assign(name=value): the column is overwritten when it exists, else appended
Assign(d, c, v) ==
    Frame(IF HasCol(d, c) THEN d.cols ELSE Append(d.cols, c),
          [r \in DOMAIN d.rows |->
              [k \in Range(d.cols) \cup {c} |-> IF k = c THEN v ELSE d.rows[r][k]]])

\* the column index of pd.concat: the union, in order of first appearance
RECURSIVE UnionCols(_)
UnionCols(frames) ==
    IF frames = <<>> THEN <<>>
    ELSE LET before == UnionCols(SubSeq(frames, 1, Len(frames) - 1))
             last == frames[Len(frames)].cols
         IN before \o SelectSeq(last, LAMBDA c : c \notin Range(before))

Widen(row, cols) ==
    [c \in Range(cols) |-> IF c \in DOMAIN row THEN row[c] ELSE NaN]

RECURSIVE ConcatRows(_, _)
ConcatRows(frames, cols) ==
    IF frames = <<>> THEN <<>>
    ELSE [r \in DOMAIN Head(frames).rows |-> Widen(Head(frames).rows[r], cols)]
         \o ConcatRows(Tail(frames), cols)

\* pd.concat(dfs, ignore_index=True)
Concat(frames) == Frame(UnionCols(frames), ConcatRows(frames, UnionCols(frames)))

(***************************************************************************)
(* Paths, and the sample label create_combined_csv derives from a path.    *)
(***************************************************************************)
P_a == <<"s","2",".","c","s","v">>
P_b == <<"d","/","s","1","0",".","c","s","v">>
P_out == <<"o","u","t",".","c","s","v">>
P_plot == <<"p","l","o","t",".","p","n","g">>

InputPaths == {P_a, P_b}
Paths == {P_a, P_b, P_out, P_plot}

\* os.path.basename: what follows the last "/"
RECURSIVE Basename(_)
Basename(path) ==
    IF \E i \in DOMAIN path : path[i] = "/"
    THEN Basename(SubSeq(path, (CHOOSE i \in DOMAIN path : path[i] = "/") + 1, Len(path)))
    ELSE path

DotCsv == <<".","c","s","v">>

\* str.replace(old, ""): every occurrence of old removed, left to right
RECURSIVE RemoveAll(_, _)
RemoveAll(s, old) ==
    IF Len(s) < Len(old) THEN s
    ELSE IF SubSeq(s, 1, Len(old)) = old
         THEN RemoveAll(SubSeq(s, Len(old) + 1, Len(s)), old)
         ELSE <<Head(s)>> \o RemoveAll(Tail(s), old)

\* sample_name = os.path.basename(csv_file).replace(".csv", "")   (line 248)
SampleName(path) == RemoveAll(Basename(path), DotCsv)

(***************************************************************************)
(* Input tables.                                                           *)
(***************************************************************************)
Id_NC_1 == <<"N","C","_","1"," ","E","c","o","l","i">>
Id_NC_10 == <<"N","C","_","1","0"," ","E","c","o","l","i">>
Id_NC_2 == <<"N","C","_","2"," ","K","p","1","0">>
Id_Kp9 == <<"K","p","9">>

IdPool == {Id_NC_1, Id_NC_10, Id_NC_2, Id_Kp9}

\* the cell texts of the row of an identifier, by column
CellText(col, id) ==
    CASE col = "query_name" -> id
      [] col = "containment" ->
            (CASE id = Id_NC_1 -> <<"0",".","8">>
               [] id = Id_NC_10 -> <<"0",".","3","0">>
               [] id = Id_NC_2 -> <<"0",".","5">>
               [] OTHER -> <<"1",".","0">>)
      [] col = "median_abund" -> (IF id = Id_NC_10 THEN <<>> ELSE <<"2",".","0">>)
      [] OTHER -> <<"o","l","d">>

Table(header, ids) ==
    Csv(header, [r \in DOMAIN ids |-> [j \in DOMAIN header |-> CellText(header[j], ids[r])]])

Headers == { <<"query_name", "containment">>,
             <<"query_name", "containment", "median_abund">>,
             <<"query_name", "containment", "barcode">>,
             <<"query_name", "median_abund">>,
             <<"containment">>,
             <<"median_abund">> }

\* single-file mode: every row order over the identifiers
SinglePool == {Missing, ZeroBytes, Garbage}
              \cup {Table(h, ids) : h \in Headers, ids \in StringsUpTo(IdPool, MaxRows)}

RowOrder == <<Id_NC_10, Id_NC_1, Id_Kp9, Id_NC_2>>

\* combined mode: tables of the first n rows of RowOrder
CombinedPool == {Missing, ZeroBytes, Garbage}
                \cup {Table(h, SubSeq(RowOrder, 1, n)) : h \in Headers, n \in 0..MaxRows}

\* non-empty lists of distinct input paths
InputLists == {l \in StringsUpTo(InputPaths, MaxFiles) :
                 l # <<>> /\ \A i, j \in DOMAIN l : i # j => l[i] # l[j]}

Args(inputs, out, debug, no_plot, combined) ==
    [input_csv |-> inputs, output_csv |-> out, output_plot |-> P_plot,
     debug |-> debug, no_plot |-> no_plot, combined |-> combined]

(***************************************************************************)
(* The process.                                                            *)
(***************************************************************************)
InputCsv == args.input_csv[1]

\* the process ends: return from main (exit 0), sys.exit(1), or an exception
\* that leaves main
Finish(status, result) ==
    /\ pc' = "done"
    /\ exit_status' = status
    /\ outcome' = result

\* an exception raised inside the try block reaches the except clause
Raise(handler, e) ==
    /\ pc' = handler
    /\ err' = e

\* with open(args.output_plot, "w") as f: f.write(...)
WritePlot(content) == fs' = [fs EXCEPT ![args.output_plot] = content]

\* main (lines 18-59): route to the plotting function
Main ==
    /\ pc = "main"
    /\ pc' = IF args.combined THEN "combined_csv" ELSE "single_debug"
    /\ UNCHANGED <<fs, args, df, dfs, idx, chart, err, exit_status, outcome, fs0, run,
                   prev_csv, keyVars>>

(***************************************************************************)
(* create_single_plot (lines 62-208).                                      *)
(***************************************************************************)
\* lines 66-71: the debug dump reads the input outside the try block
SingleDebug ==
    /\ pc = "single_debug"
    /\ IF args.debug /\ ~Exists(fs, InputCsv)
       THEN Finish("exception", "crashed")
       ELSE pc' = "single_copy" /\ UNCHANGED <<exit_status, outcome>>
    /\ UNCHANGED <<fs, args, df, dfs, idx, chart, err, fs0, run, prev_csv, keyVars>>

\* a copy with its arguments swapped
ShutilCopySwapped(f, src, dst) == [f EXCEPT ![src] = f[dst]]

\* shutil.copy(src, dst)
ShutilCopy(f, src, dst) == [f EXCEPT ![dst] = f[src]]

\* if input_csv != args.output_csv: shutil.copy(input_csv, args.output_csv)
CopyInput(f, input, out) == IF input # out THEN ShutilCopy(f, input, out) ELSE f

\* lines 73-74: copy the input to the output table path, outside the try block;
\* shutil.copy raises FileNotFoundError when the input is missing
SingleCopy ==
    /\ pc = "single_copy"
    /\ IF InputCsv # args.output_csv /\ ~Exists(fs, InputCsv)
       THEN /\ Finish("exception", "crashed")
            /\ UNCHANGED fs
       ELSE /\ fs' = CopyInput(fs, InputCsv, args.output_csv)
            /\ pc' = "single_size"
            /\ UNCHANGED <<exit_status, outcome>>
    /\ UNCHANGED <<args, df, dfs, idx, chart, err, fs0, run, prev_csv, keyVars>>

\* lines 77-82: a zero-byte input gets a placeholder
SingleCheckSize ==
    /\ pc = "single_size"
    /\ IF ~Exists(fs, InputCsv)
       THEN /\ Raise("single_except", "FileNotFoundError")
            /\ UNCHANGED <<fs, exit_status, outcome>>
       ELSE IF SizeIsZero(fs, InputCsv)
       THEN /\ WritePlot(Placeholder("No data to visualize - CSV file is empty", <<>>))
            /\ Finish("ok", "empty_input")
            /\ UNCHANGED err
       ELSE /\ pc' = "single_read"
            /\ UNCHANGED <<fs, err, exit_status, outcome>>
    /\ UNCHANGED <<args, df, dfs, idx, chart, fs0, run, prev_csv, keyVars>>

\* lines 84-97: read the table; a table without rows gets a placeholder
SingleRead ==
    /\ pc = "single_read"
    /\ IF ReadRaises(fs[InputCsv])
       THEN /\ Raise("single_except", "ParserError")
            /\ UNCHANGED <<fs, df, exit_status, outcome>>
       ELSE IF IsEmpty(read_csv(fs[InputCsv]))
       THEN /\ WritePlot(Placeholder("No matches found", <<>>))
            /\ Finish("ok", "no_matches")
            /\ df' = read_csv(fs[InputCsv])
            /\ UNCHANGED err
       ELSE /\ df' = read_csv(fs[InputCsv])
            /\ pc' = "single_noplot"
            /\ UNCHANGED <<fs, err, exit_status, outcome>>
    /\ UNCHANGED <<args, dfs, idx, chart, fs0, run, prev_csv, keyVars>>

\* lines 99-102: skip plotting if requested
SingleNoPlot ==
    /\ pc = "single_noplot"
    /\ IF args.no_plot
       THEN Finish("ok", "skipped")
       ELSE pc' = "single_cols" /\ UNCHANGED <<exit_status, outcome>>
    /\ UNCHANGED <<fs, args, df, dfs, idx, chart, err, fs0, run, prev_csv, keyVars>>

required_cols == <<"query_name", "containment">>

\* a check that looks for the first required column only
MissingColsFirstOnly(d) == SelectSeq(<<"query_name">>, LAMBDA c : ~HasCol(d, c))

\* missing_cols = [col for col in required_cols if col not in df.columns]
MissingCols(d) == SelectSeq(required_cols, LAMBDA c : ~HasCol(d, c))

\* lines 106-113: a table lacking a required column gets a placeholder
SingleCheckCols ==
    /\ pc = "single_cols"
    /\ IF MissingCols(df) # <<>>
       THEN /\ WritePlot(Placeholder("Missing columns: ", MissingCols(df)))
            /\ Finish("ok", "schema_mismatch")
       ELSE /\ pc' = "single_sort"
            /\ UNCHANGED <<fs, exit_status, outcome>>
    /\ UNCHANGED <<args, df, dfs, idx, chart, err, fs0, run, prev_csv, keyVars>>

\* str.split(" ", 1)[1]: what follows the first space
AfterFirstSpace(name) ==
    SubSeq(name, (CHOOSE i \in DOMAIN name :
                     name[i] = " " /\ \A j \in 1..(i - 1) : name[j] # " ") + 1, Len(name))

\* a sort key that is the whole name
get_sort_key_whole(name) == name

\* get_sort_key (lines 116-120)
get_sort_key(name) ==
    IF \E i \in DOMAIN name : name[i] = " "
    THEN AfterFirstSpace(name)
    ELSE name

\* lambda x: natural_sort_key(get_sort_key(x))   (lines 122-124)
SortKeyOf(v) == natural_sort_key(get_sort_key(v.v))

\* the key computation raises: a query_name that is no string (TypeError on
\* " " in name), or int() raising in natural_sort_key
SortKeyRaises(d) ==
    \E r \in DOMAIN d.rows :
        d.rows[r]["query_name"].t # "str" \/ SortKeyOf(d.rows[r]["query_name"]).raised # "none"

\* df.sort_values(key columns): the rows in non-decreasing key order; the
\* default sort kind is not stable, so rows with equal keys come in any order.
\* SortedOrders(S, leq, same) is the set of such orders of the row indices S,
\* leq being the order of the keys by row index; of several equal rows (same)
\* the first is taken first, which leaves the set of resulting tables as it is.
RECURSIVE SortedOrders(_, _, _)
SortedOrders(S, leq, same) ==
    IF S = {} THEN {<<>>}
    ELSE UNION {{<<m>> \o rest : rest \in SortedOrders(S \ {m}, leq, same)} :
                  m \in {x \in S : /\ \A z \in S : leq[x, z]
                                   /\ \A z \in S : z < x => ~same[x, z]}}

SortedFrames(d, leq) ==
    LET same == [x \in DOMAIN d.rows, z \in DOMAIN d.rows |-> d.rows[x] = d.rows[z]]
    IN {Frame(d.cols, [i \in DOMAIN d.rows |-> d.rows[p[i]]]) :
           p \in SortedOrders(DOMAIN d.rows, leq, same)}

\* the order of the sort_key column of create_single_plot
SingleRowLeq(r1, r2) ==
    KeyLeq(SortKeyOf(r1["query_name"]).key, SortKeyOf(r2["query_name"]).key)

SingleKeyOrder(d) ==
    [x \in DOMAIN d.rows, z \in DOMAIN d.rows |-> SingleRowLeq(d.rows[x], d.rows[z])]

\* lines 115-126: sort the rows by the natural sort key of the name
SingleSort ==
    /\ pc = "single_sort"
    /\ IF SortKeyRaises(df)
       THEN /\ Raise("single_except", "ValueError")
            /\ UNCHANGED df
       ELSE /\ df' \in SortedFrames(df, SingleKeyOrder(df))
            /\ pc' = "single_chart"
            /\ UNCHANGED err
    /\ UNCHANGED <<fs, args, dfs, idx, chart, exit_status, outcome, fs0, run, prev_csv, keyVars>>

\* the names of a column of strings
Names(d, c) == [r \in DOMAIN d.rows |-> d.rows[r][c].v]

\* lines 128-194: the bar chart, its y axis sorted as the rows, and the text
\* layer when the table has a median_abund column
SingleChart(d) ==
    [y |-> Names(d, "query_name"),
     color |-> <<>>,
     layers |-> IF HasCol(d, "median_abund") THEN <<"bar", "text">> ELSE <<"bar">>,
     n |-> Len(d.rows)]

SingleBuildChart ==
    /\ pc = "single_chart"
    /\ chart' = SingleChart(df)
    /\ pc' = "single_save"
    /\ UNCHANGED <<fs, args, df, dfs, idx, err, exit_status, outcome, fs0, run, prev_csv, keyVars>>

\* lines 196-198: chart.save writes the image, or raises
SingleSave ==
    /\ pc = "single_save"
    /\ \E saved \in BOOLEAN :
        IF saved
        THEN /\ WritePlot(Image(chart))
             /\ Finish("ok", "rendered")
             /\ UNCHANGED err
        ELSE /\ Raise("single_except", "SaveError")
             /\ UNCHANGED <<fs, exit_status, outcome>>
    /\ UNCHANGED <<args, df, dfs, idx, chart, fs0, run, prev_csv, keyVars>>

\* lines 200-208: any exception of the try block: placeholder, then sys.exit(1)
SingleExcept ==
    /\ pc = "single_except"
    /\ WritePlot(Placeholder("Error: ", <<err>>))
    /\ Finish("exit1", "failed")
    /\ UNCHANGED <<args, df, dfs, idx, chart, err, fs0, run, prev_csv, keyVars>>

(***************************************************************************)
(* create_combined_csv (lines 235-266).                                    *)
(***************************************************************************)
\* the test of lines 240-246: the file exists, is not zero-length, and its
\* table has rows and both required columns
Contributes(f, path) ==
    /\ Exists(f, path)
    /\ ~SizeIsZero(f, path)
    /\ ~IsEmpty(read_csv(f[path]))
    /\ HasCol(read_csv(f[path]), "query_name")
    /\ HasCol(read_csv(f[path]), "containment")

\* pd.read_csv is called on every existing file of non-zero length
LoadRaises(f, path) == Exists(f, path) /\ ~SizeIsZero(f, path) /\ ReadRaises(f[path])

\* lines 247-250: the table tagged with the sample name of its file
Tagged(f, path) == Assign(read_csv(f[path]), "barcode", StrV(SampleName(path)))

\* a loop that puts each table in front of the list
RECURSIVE CollectReversed(_, _, _)
CollectReversed(f, inputs, n) ==
    IF n = 0 THEN <<>>
    ELSE (IF Contributes(f, inputs[n]) THEN <<Tagged(f, inputs[n])>> ELSE <<>>)
         \o CollectReversed(f, inputs, n - 1)

\* the loop of lines 239-250 over the first n input files: the list dfs
RECURSIVE Collect(_, _, _)
Collect(f, inputs, n) ==
    IF n = 0 THEN <<>>
    ELSE Collect(f, inputs, n - 1)
         \o (IF Contributes(f, inputs[n]) THEN <<Tagged(f, inputs[n])>> ELSE <<>>)

\* the loop stops at the first file whose read raises
CollectRaises(f, inputs) == \E i \in DOMAIN inputs : LoadRaises(f, inputs[i])

\* an empty table without the sample column
empty_df_unlabelled == Frame(<<"query_name", "containment">>, <<>>)

\* pd.DataFrame(columns=["query_name", "containment", "barcode"])   (line 255)
empty_df == Frame(<<"query_name", "containment", "barcode">>, <<>>)

\* lines 252-266: the table that is saved
CombinedFrame(frames) == IF frames = <<>> THEN empty_df ELSE Concat(frames)

\* a save that appends to an existing table of the same header (mode="a")
SaveCsvAppend(f, path, d) ==
    [f EXCEPT ![path] = IF f[path].kind = "csv" /\ f[path].cols = d.cols
                        THEN Csv(f[path].cols, f[path].rows \o to_csv(d).rows)
                        ELSE to_csv(d)]

\* df.to_csv(args.output_csv, index=False): the file is replaced
SaveCsv(f, path, d) == [f EXCEPT ![path] = to_csv(d)]

CreateCombinedCsv ==
    /\ pc = "combined_csv"
    /\ IF CollectRaises(fs, args.input_csv)
       THEN /\ Raise("combined_except", "ParserError")
            /\ UNCHANGED <<fs, df, dfs, idx>>
       ELSE /\ dfs' = Collect(fs, args.input_csv, Len(args.input_csv))
            /\ idx' = Len(args.input_csv) + 1
            /\ df' = CombinedFrame(dfs')
            /\ fs' = SaveCsv(fs, args.output_csv, df')
            /\ pc' = "combined_noplot"
            /\ UNCHANGED err
    /\ UNCHANGED <<args, chart, exit_status, outcome, fs0, run, prev_csv, keyVars>>

(***************************************************************************)
(* create_combined_plot (lines 211-232) and create_plot_from_combined_csv  *)
(* (lines 269-378).                                                        *)
(***************************************************************************)
\* lines 217-220: skip plotting if requested
CombinedNoPlot ==
    /\ pc = "combined_noplot"
    /\ IF args.no_plot
       THEN Finish("ok", "skipped")
       ELSE pc' = "plot_read" /\ UNCHANGED <<exit_status, outcome>>
    /\ UNCHANGED <<fs, args, df, dfs, idx, chart, err, fs0, run, prev_csv, keyVars>>

\* lines 272-278: read the combined table back; without rows, a placeholder
PlotRead ==
    /\ pc = "plot_read"
    /\ IF ReadRaises(fs[args.output_csv])
       THEN /\ Raise("combined_except", "ParserError")
            /\ UNCHANGED <<fs, df, exit_status, outcome>>
       ELSE IF IsEmpty(read_csv(fs[args.output_csv]))
       THEN /\ WritePlot(Placeholder("No valid data found", <<>>))
            /\ Finish("ok", "no_data")
            /\ df' = read_csv(fs[args.output_csv])
            /\ UNCHANGED err
       ELSE /\ df' = read_csv(fs[args.output_csv])
            /\ pc' = "plot_build"
            /\ UNCHANGED <<fs, err, exit_status, outcome>>
    /\ UNCHANGED <<args, dfs, idx, chart, fs0, run, prev_csv, keyVars>>

\* extract_short_name (lines 281-284)
extract_short_name(name) ==
    IF \E i \in DOMAIN name : name[i] = " " THEN AfterFirstSpace(name) ELSE name

\* Series.unique(): the values in order of first appearance
RECURSIVE Unique(_)
Unique(seq) ==
    IF seq = <<>> THEN <<>>
    ELSE LET before == Unique(SubSeq(seq, 1, Len(seq) - 1)) IN
         IF seq[Len(seq)] \in Range(before) THEN before ELSE Append(before, seq[Len(seq)])

\* insert x after the elements whose key is not greater: sorted() is stable
RECURSIVE InsertByKey(_, _)
InsertByKey(sorted, x) ==
    IF sorted = <<>> THEN <<x>>
    ELSE IF KeyLeq(natural_sort_key(sorted[Len(sorted)]).key, natural_sort_key(x).key)
         THEN Append(sorted, x)
         ELSE Append(InsertByKey(SubSeq(sorted, 1, Len(sorted) - 1), x), sorted[Len(sorted)])

\* sorted(names, key=natural_sort_key)
RECURSIVE SortedByKey(_)
SortedByKey(names) ==
    IF names = <<>> THEN <<>>
    ELSE InsertByKey(SortedByKey(SubSeq(names, 1, Len(names) - 1)), names[Len(names)])

\* the key computations of lines 286-300 raise: a query_name or barcode that is
\* no string, or int() raising in natural_sort_key
PlotKeyRaises(d) ==
    \E r \in DOMAIN d.rows :
        \/ d.rows[r]["query_name"].t # "str"
        \/ d.rows[r]["barcode"].t # "str"
        \/ natural_sort_key(extract_short_name(d.rows[r]["query_name"].v)).raised # "none"
        \/ natural_sort_key(d.rows[r]["barcode"].v).raised # "none"

\* the order of sort_values(["short_name_sort_key", "barcode_sort_key"])
CombinedRowLeq(r1, r2) ==
    LET s1 == natural_sort_key(extract_short_name(r1["query_name"].v)).key
        s2 == natural_sort_key(extract_short_name(r2["query_name"].v)).key
        b1 == natural_sort_key(r1["barcode"].v).key
        b2 == natural_sort_key(r2["barcode"].v).key
    IN  \/ TupleCompare(s1, s2) = "lt"
        \/ TupleCompare(s1, s2) = "eq" /\ KeyLeq(b1, b2)

\* insert row index x after the indices whose key is not greater
RECURSIVE InsertIndex(_, _, _)
InsertIndex(sorted, x, leq) ==
    IF sorted = <<>> THEN <<x>>
    ELSE IF leq[sorted[Len(sorted)], x] THEN Append(sorted, x)
         ELSE Append(InsertIndex(SubSeq(sorted, 1, Len(sorted) - 1), x, leq),
                     sorted[Len(sorted)])

RECURSIVE StableOrder(_, _)
StableOrder(n, leq) ==
    IF n = 0 THEN <<>> ELSE InsertIndex(StableOrder(n - 1, leq), n, leq)

\* df.sort_values([columns]): sorting by several columns is a stable
\* lexicographic sort, so rows with equal keys keep their order
StableSorted(d, leq) ==
    LET p == StableOrder(Len(d.rows), leq)
    IN Frame(d.cols, [i \in DOMAIN d.rows |-> d.rows[p[i]]])

CombinedKeyOrder(d) ==
    [x \in DOMAIN d.rows, z \in DOMAIN d.rows |-> CombinedRowLeq(d.rows[x], d.rows[z])]

\* lines 286-375: the grouped bar chart: y axis in short_name_order, colour and
\* offset in barcode_order, and the text layer when there is a median_abund column
\* (barcode_order is taken before the rows are sorted, short_name_order after)
CombinedChart(d, sorted) ==
    [y |-> SortedByKey(Unique([r \in DOMAIN sorted.rows |->
                                  extract_short_name(sorted.rows[r]["query_name"].v)])),
     color |-> SortedByKey(Unique(Names(d, "barcode"))),
     layers |-> IF HasCol(d, "median_abund") THEN <<"bar", "text">> ELSE <<"bar">>,
     n |-> Len(d.rows)]

PlotBuild ==
    /\ pc = "plot_build"
    /\ IF PlotKeyRaises(df)
       THEN /\ Raise("combined_except", "ValueError")
            /\ UNCHANGED <<df, chart>>
       ELSE /\ df' = StableSorted(df, CombinedKeyOrder(df))
            /\ chart' = CombinedChart(df, df')
            /\ pc' = "plot_save"
            /\ UNCHANGED err
    /\ UNCHANGED <<fs, args, dfs, idx, exit_status, outcome, fs0, run, prev_csv, keyVars>>

\* line 377: chart.save writes the image, or raises
PlotSave ==
    /\ pc = "plot_save"
    /\ \E saved \in BOOLEAN :
        IF saved
        THEN /\ WritePlot(Image(chart))
             /\ Finish("ok", "rendered")
             /\ UNCHANGED err
        ELSE /\ Raise("combined_except", "SaveError")
             /\ UNCHANGED <<fs, exit_status, outcome>>
    /\ UNCHANGED <<args, df, dfs, idx, chart, fs0, run, prev_csv, keyVars>>

\* lines 225-232: any exception: placeholder, then sys.exit(1)
CombinedExcept ==
    /\ pc = "combined_except"
    /\ WritePlot(Placeholder("Error: ", <<err>>))
    /\ Finish("exit1", "failed")
    /\ UNCHANGED <<args, df, dfs, idx, chart, err, fs0, run, prev_csv, keyVars>>

\* the command is run again with the same arguments on the file system the
\* previous process left
Relaunch ==
    /\ pc = "done"
    /\ run < MaxRuns
    /\ run' = run + 1
    /\ prev_csv' = fs[args.output_csv]
    /\ fs0' = fs
    /\ pc' = "main"
    /\ df' = NoFrame
    /\ dfs' = <<>>
    /\ idx' = 1
    /\ chart' = NoChart
    /\ err' = "none"
    /\ exit_status' = "running"
    /\ outcome' = "none"
    /\ UNCHANGED <<fs, args, keyVars>>

InitRun(f, a) ==
    /\ fs = f
    /\ fs0 = f
    /\ args = a
    /\ pc = "main"
    /\ df = NoFrame
    /\ dfs = <<>>
    /\ idx = 1
    /\ chart = NoChart
    /\ err = "none"
    /\ exit_status = "running"
    /\ outcome = "none"
    /\ run = 1
    /\ prev_csv = Missing

KeyIdle ==
    /\ text_a = <<>>
    /\ text_b = <<>>
    /\ key_a = NoKey
    /\ key_b = NoKey
    /\ cmp = "unset"

\* single-file mode: one input table, the output table path possibly an input path
InitSingle ==
    /\ \E c \in SinglePool, inputs \in InputLists, out \in {P_out} \cup InputPaths,
          debug \in BOOLEAN, no_plot \in BOOLEAN :
         InitRun([p \in Paths |-> IF p = P_a THEN c ELSE Missing],
                 Args(inputs, out, debug, no_plot, FALSE))
    /\ KeyIdle

NextSingle ==
    \/ Main
    \/ SingleDebug
    \/ SingleCopy
    \/ SingleCheckSize
    \/ SingleRead
    \/ SingleNoPlot
    \/ SingleCheckCols
    \/ SingleSort
    \/ SingleBuildChart
    \/ SingleSave
    \/ SingleExcept

SpecSingle == InitSingle /\ [][NextSingle]_vars

\* combined mode: two input tables, the output table path possibly an input path
InitCombined ==
    /\ \E ca \in CombinedPool, cb \in CombinedPool, inputs \in InputLists,
          out \in {P_out} \cup InputPaths, debug \in BOOLEAN, no_plot \in BOOLEAN :
         InitRun([p \in Paths |-> IF p = P_a THEN ca ELSE IF p = P_b THEN cb ELSE Missing],
                 Args(inputs, out, debug, no_plot, TRUE))
    /\ KeyIdle

NextCombined ==
    \/ Main
    \/ CreateCombinedCsv
    \/ CombinedNoPlot
    \/ PlotRead
    \/ PlotBuild
    \/ PlotSave
    \/ CombinedExcept
    \/ Relaunch

SpecCombined == InitCombined /\ [][NextCombined]_vars

(***************************************************************************)
(* natural_sort_key applied to two strings, and the two keys compared.     *)
(***************************************************************************)
\* key_a = natural_sort_key(text_a); key_b = natural_sort_key(text_b)
ComputeKeys ==
    /\ pc = "key"
    /\ key_a' = natural_sort_key(text_a)
    /\ key_b' = natural_sort_key(text_b)
    /\ pc' = IF key_a'.raised = "none" /\ key_b'.raised = "none" THEN "compare" ELSE "key_done"
    /\ cmp' = IF key_a'.raised = "none" /\ key_b'.raised = "none" THEN "unset" ELSE "ValueError"
    /\ UNCHANGED <<fs, args, df, dfs, idx, chart, err, exit_status, outcome, fs0, run,
                   prev_csv, text_a, text_b>>

\* key_a < key_b, as sorting evaluates it
CompareKeys ==
    /\ pc = "compare"
    /\ cmp' = TupleCompare(key_a.key, key_b.key)
    /\ pc' = "key_done"
    /\ UNCHANGED <<fs, args, df, dfs, idx, chart, err, exit_status, outcome, fs0, run,
                   prev_csv, text_a, text_b, key_a, key_b>>

InitKey ==
    /\ text_a \in KeyInputs
    /\ text_b \in KeyInputs
    /\ key_a = NoKey
    /\ key_b = NoKey
    /\ cmp = "unset"
    /\ fs = [p \in Paths |-> Missing]
    /\ fs0 = fs
    /\ args = Args(<<P_a>>, P_out, FALSE, FALSE, FALSE)
    /\ pc = "key"
    /\ df = NoFrame
    /\ dfs = <<>>
    /\ idx = 1
    /\ chart = NoChart
    /\ err = "none"
    /\ exit_status = "running"
    /\ outcome = "none"
    /\ run = 1
    /\ prev_csv = Missing

NextKey ==
    \/ ComputeKeys
    \/ CompareKeys

SpecKey == InitKey /\ [][NextKey]_vars

(***************************************************************************)
(* The comparison the specification describes, stated on the strings:      *)
(* leading non-digit runs compare as lowercased text, then leading digit   *)
(* runs by value, then the rest; a string that ends first comes first.     *)
(***************************************************************************)
RECURSIVE TextPrefix(_)
TextPrefix(s) ==
    IF s = <<>> \/ IsDecimal(s[1]) THEN <<>> ELSE <<s[1]>> \o TextPrefix(Tail(s))

RECURSIVE DigitPrefix(_)
DigitPrefix(s) ==
    IF s = <<>> \/ ~IsDecimal(s[1]) THEN <<>> ELSE <<s[1]>> \o DigitPrefix(Tail(s))

Drop(s, n) == SubSeq(s, n + 1, Len(s))

RECURSIVE NaturalCompare(_, _)
NaturalCompare(s, t) ==
    LET ps == TextPrefix(s)
        pt == TextPrefix(t)
        rs == Drop(s, Len(ps))
        rt == Drop(t, Len(pt))
        ds == DigitPrefix(rs)
        dt == DigitPrefix(rt)
    IN  IF Lower(ps) # Lower(pt)
        THEN (IF StrLess(Lower(ps), Lower(pt)) THEN "lt" ELSE "gt")
        ELSE IF ds = <<>> /\ dt = <<>> THEN "eq"
        ELSE IF ds = <<>> THEN "lt"
        ELSE IF dt = <<>> THEN "gt"
        ELSE IF IntOf(ds) # IntOf(dt) THEN (IF IntOf(ds) < IntOf(dt) THEN "lt" ELSE "gt")
        ELSE NaturalCompare(Drop(rs, Len(ds)), Drop(rt, Len(dt)))

\* the part of an identifier the rows are ordered by
SortText(name) ==
    IF \E k \in DOMAIN name : name[k] = " "
    THEN LET k == CHOOSE k \in DOMAIN name :
                    name[k] = " " /\ \A j \in DOMAIN name : j < k => name[j] # " "
         IN Drop(name, k)
    ELSE name

(***************************************************************************)
(* Properties.                                                             *)
(***************************************************************************)
Done == pc = "done"
Input0 == fs0[InputCsv]
Plot == fs[args.output_plot]
OutCsv == fs[args.output_csv]

\* C9: for all strings s and t, natural_sort_key yields keys whose comparison
\* is the natural comparison of s and t (digit runs by value, other runs as
\* lowercased text, component by component) and never fails; and
\* key("sample2") < key("sample10") < key("sample100").
C9_NaturalOrder ==
    (pc = "key_done") =>
        /\ cmp = NaturalCompare(text_a, text_b)
        /\ (text_a = sample2 /\ text_b = sample10 => cmp = "lt")
        /\ (text_a = sample10 /\ text_b = sample100 => cmp = "lt")

\* C1: when rendering is not skipped, a terminated run has left a file (chart
\* or placeholder) at the output image path, whatever the input.
C1_FileAtImagePath ==
    (Done /\ ~args.no_plot) => Plot.kind \in {"image", "text"}

\* C2: a run that signals failure (sys.exit(1) or an exception leaving main)
\* has written a placeholder at the image path, and the recoverable outcomes
\* end without a failure signal.
C2_FailureAfterPlaceholder ==
    Done =>
        /\ (exit_status \in {"exit1", "exception"} => Plot.kind = "text")
        /\ (outcome \in {"empty_input", "no_matches", "schema_mismatch", "no_data"}
               => exit_status = "ok")

\* a table with rows that lacks a required column
LacksRequired(content) ==
    /\ content.kind = "csv"
    /\ content.rows # <<>>
    /\ ("query_name" \notin Range(content.cols) \/ "containment" \notin Range(content.cols))

\* the required columns a table lacks, in the order query_name, containment
Lacking(content) ==
    (IF "query_name" \in Range(content.cols) THEN <<>> ELSE <<"query_name">>)
    \o (IF "containment" \in Range(content.cols) THEN <<>> ELSE <<"containment">>)

\* C3 (amended): in single-file mode an input table with rows that lacks a
\* required column never reaches the sort or the chart, whatever the options;
\* when rendering is not skipped the run ends normally with a placeholder
\* listing exactly the missing columns, and when rendering is skipped
\* (--no-plot) it ends before the column check and writes nothing at the
\* image path.
C3_SchemaMismatch ==
    (~args.combined /\ LacksRequired(Input0)) =>
        /\ pc \notin {"single_sort", "single_chart", "single_save", "single_except"}
        /\ Plot.kind # "image"
        /\ (Done /\ ~args.no_plot =>
               /\ Plot = Placeholder("Missing columns: ", Lacking(Input0))
               /\ exit_status = "ok")
        /\ (Done /\ args.no_plot => Plot = Missing /\ exit_status = "ok")

\* C3 as stated: the placeholder listing the missing columns is written for
\* every setting of the other options.
C3_Original ==
    (~args.combined /\ LacksRequired(Input0) /\ Done) =>
        Plot = Placeholder("Missing columns: ", Lacking(Input0))

C3_Witness ==
    /\ ~args.combined /\ Done /\ ~args.no_plot
    /\ LacksRequired(Input0)
    /\ Plot = Placeholder("Missing columns: ", <<"containment">>)

\* C8: in single-file mode with an existing input, nothing is written and no
\* outcome is determined before the copy; from the copy on, and at
\* termination, the output table equals the input, for every kind of input;
\* when the two paths coincide the file is left unchanged.
C8_CopyFirst ==
    (~args.combined /\ Exists(fs0, InputCsv)) =>
        /\ (pc \in {"main", "single_debug", "single_copy"} => fs = fs0 /\ outcome = "none")
        /\ (pc \notin {"main", "single_debug", "single_copy"} => OutCsv = Input0)
        /\ fs[InputCsv] = Input0
        /\ (InputCsv = args.output_csv => OutCsv = fs0[args.output_csv])

C8_Witness ==
    /\ ~args.combined /\ Done
    /\ InputCsv # args.output_csv
    /\ Input0 = Garbage
    /\ outcome = "failed"
    /\ OutCsv = Garbage

\* the identifiers of a table file, in file order
InputNames(content) ==
    [r \in DOMAIN content.rows |-> content.rows[r][ColIndex(content.cols, "query_name")]]

IsRearrangement(s, t) ==
    /\ Len(s) = Len(t)
    /\ \A x \in Range(s) \cup Range(t) :
          Cardinality({i \in DOMAIN s : s[i] = x}) = Cardinality({i \in DOMAIN t : t[i] = x})

\* the names on the y axis of the rendered chart, top to bottom
Shown == Plot.chart.y

\* C10 (amended): in single-file mode the display order of a rendered chart is
\* a rearrangement of the input rows in non-decreasing natural order of the
\* text after the first space of the identifier (the whole identifier when it
\* has no space); rows whose texts compare equal, such as "NC_1 Ecoli" and
\* "NC_10 Ecoli", are in no order fixed by the sort.
C10_DisplayOrder ==
    (~args.combined /\ Done /\ Plot.kind = "image") =>
        /\ IsRearrangement(Shown, InputNames(Input0))
        /\ \A i, j \in DOMAIN Shown :
              i < j => NaturalCompare(SortText(Shown[i]), SortText(Shown[j])) \in {"lt", "eq"}

\* C10 as stated: moreover "NC_1 Ecoli" is displayed before "NC_10 Ecoli"
\* whichever comes first in the input.
C10_Original ==
    (~args.combined /\ Done /\ Plot.kind = "image") =>
        /\ IsRearrangement(Shown, InputNames(Input0))
        /\ \A i, j \in DOMAIN Shown :
              i < j => NaturalCompare(SortText(Shown[i]), SortText(Shown[j])) \in {"lt", "eq"}
        /\ \A i, j \in DOMAIN Shown :
              Shown[i] = Id_NC_1 /\ Shown[j] = Id_NC_10 => i < j

C10_Witness ==
    /\ ~args.combined /\ Done /\ Plot.kind = "image"
    /\ InputNames(Input0) = <<Id_NC_2, Id_Kp9>>
    /\ Shown = <<Id_Kp9, Id_NC_2>>

(***************************************************************************)
(* Combined mode.                                                          *)
(***************************************************************************)
\* a file the aggregator is to skip: missing on disk, zero-length, without
\* rows, or without a required column
Skipped(content) ==
    \/ content.kind \in {"missing", "zero"}
    \/ /\ content.kind = "csv"
       /\ \/ content.rows = <<>>
          \/ "query_name" \notin Range(content.cols)
          \/ "containment" \notin Range(content.cols)

\* every input file is either skipped or a table
AllReadable == \A i \in DOMAIN args.input_csv :
                  Skipped(fs0[args.input_csv[i]]) \/ fs0[args.input_csv[i]].kind = "csv"

\* where each row of the combined table comes from: <<file index, row index>>,
\* files in input-list order and rows in file order
RECURSIVE Origins(_)
Origins(n) ==
    IF n = 0 THEN <<>>
    ELSE Origins(n - 1)
         \o (IF Skipped(fs0[args.input_csv[n]]) THEN <<>>
             ELSE [r \in DOMAIN fs0[args.input_csv[n]].rows |-> <<n, r>>])

\* the sample label of an input path: its base name without the extension
LabelOf(path) == IF path = P_a THEN <<"s","2">> ELSE <<"s","1","0">>

\* C4: when every listed file is a table or is missing, zero-length, without
\* rows or without the required columns, create_combined_csv does not raise,
\* and the persisted table holds exactly the rows of the contributing files,
\* files in input-list order and rows in file order, each with the values of
\* its source row and the sample label of its file.
C4_Aggregation ==
    (args.combined /\ AllReadable) =>
        /\ err # "ParserError"
        /\ (pc \notin {"main", "combined_csv"} =>
              LET T == read_csv(OutCsv)
                  from == Origins(Len(args.input_csv))
              IN  /\ Len(T.rows) = Len(from)
                  /\ \A k \in DOMAIN from :
                        LET path == args.input_csv[from[k][1]]
                            src == read_csv(fs0[path])
                        IN  /\ T.rows[k]["barcode"] = StrV(LabelOf(path))
                            /\ \A c \in Range(src.cols) \ {"barcode"} :
                                  T.rows[k][c] = src.rows[from[k][2]][c])

C4_Witness ==
    /\ args.combined /\ Done /\ run = 1
    /\ args.input_csv = <<P_b, P_a>>
    /\ args.output_csv = P_out
    /\ fs0[P_b] = Table(<<"query_name", "containment", "median_abund">>, <<Id_NC_10, Id_NC_1>>)
    /\ fs0[P_a] = Table(<<"query_name", "containment">>, <<Id_NC_10>>)
    /\ Names(read_csv(OutCsv), "barcode") = <<LabelOf(P_b), LabelOf(P_b), LabelOf(P_a)>>

\* no listed file contributes rows: each is missing, zero-length, without rows
\* or without the required columns
NoneContribute == \A i \in DOMAIN args.input_csv : Skipped(fs0[args.input_csv[i]])

\* C5: in combined mode, when no input file contributes rows, the persisted
\* table has exactly the columns query_name, containment, barcode and no rows,
\* it is in place before the plot stage starts, the run ends without a failure
\* signal, and a placeholder is written at the image path exactly when
\* rendering is attempted.
C5_NoContributingFiles ==
    (args.combined /\ NoneContribute) =>
        /\ pc \notin {"plot_build", "plot_save", "combined_except"}
        /\ (pc \in {"combined_noplot", "plot_read", "done"} =>
              OutCsv = Csv(<<"query_name", "containment", "barcode">>, <<>>))
        /\ (Done => exit_status = "ok")
        /\ (Done /\ ~args.no_plot => Plot = Placeholder("No valid data found", <<>>))
        /\ (args.no_plot => Plot = Missing)

C5_Witness ==
    /\ args.combined /\ Done /\ ~args.no_plot /\ run = 1
    /\ Len(args.input_csv) = MaxFiles
    /\ \A i \in DOMAIN args.input_csv : fs0[args.input_csv[i]] = Missing
    /\ OutCsv = Csv(<<"query_name", "containment", "barcode">>, <<>>)
    /\ Plot = Placeholder("No valid data found", <<>>)

\* C6 (amended): when the output table path is not one of the input paths,
\* running the command again with the same arguments leaves the output table
\* as the previous run left it.
C6_Idempotent ==
    (args.combined /\ run > 1 /\ Done /\ args.output_csv \notin Range(args.input_csv)) =>
        OutCsv = prev_csv

\* C6 as stated: for every input list and output table path.
C6_Original ==
    (args.combined /\ run > 1 /\ Done) => OutCsv = prev_csv

C6_Witness ==
    /\ args.combined /\ run > 1 /\ Done
    /\ args.output_csv \notin Range(args.input_csv)
    /\ Len(args.input_csv) = 2
    /\ OutCsv = prev_csv
    /\ OutCsv.kind = "csv"
    /\ Len(OutCsv.rows) = 2 * MaxRows

\* the table single-file mode leaves at the output table path for this input
SingleTable == read_csv(CopyInput(fs0, InputCsv, args.output_csv)[args.output_csv])

\* the combined table has the rows of the single-mode table, in order, and one
\* more column, barcode, of one value
RoundTrip ==
    LET S == SingleTable
        T == read_csv(OutCsv)
    IN  /\ T.cols = Append(S.cols, "barcode")
        /\ Len(T.rows) = Len(S.rows)
        /\ \A r \in DOMAIN S.rows : \A c \in Range(S.cols) : T.rows[r][c] = S.rows[r][c]
        /\ \A r1, r2 \in DOMAIN T.rows : T.rows[r1]["barcode"] = T.rows[r2]["barcode"]

\* C7 (amended): for a single input file that contributes (it has rows and
\* both required columns) and has no barcode column of its own, the table
\* combined mode persists for the one-element list has the rows and row order
\* of the table single-file mode persists, plus exactly one added column,
\* barcode, with the same value in every row.
C7_RoundTrip ==
    (/\ args.combined /\ run = 1 /\ Done
     /\ Len(args.input_csv) = 1
     /\ Input0.kind = "csv"
     /\ ~Skipped(Input0)
     /\ "barcode" \notin Range(Input0.cols)) => RoundTrip

\* C7 as stated: for every single input table (here with an output table path
\* of its own).
C7_Original ==
    (/\ args.combined /\ run = 1 /\ Done
     /\ Len(args.input_csv) = 1
     /\ args.output_csv = P_out
     /\ Input0.kind = "csv") => RoundTrip

C7_Witness ==
    /\ args.combined /\ run = 1 /\ Done
    /\ args.input_csv = <<P_b>>
    /\ Input0 = Table(<<"query_name", "containment", "median_abund">>, <<Id_NC_10, Id_NC_1>>)
    /\ RoundTrip
    /\ OutCsv # Input0

====
